---- MODULE Spec2Model ----
(***************************************************************************)
(* The jobs plugin of roadrunner (plugins/jobs/plugin.go): the pipeline /  *)
(* consumer registries, the lifecycle operations (Declare, Destroy, Push,  *)
(* PushBatch, Pause, Resume), Serve's initial walk, the poller loops, the  *)
(* worker pool Reset and Stop.                                             *)
(*                                                                         *)
(* Every operation is a sequence of steps, one per access to the shared    *)
(* state of the Plugin struct, so that concurrent callers interleave as    *)
(* goroutines do.  Calls to the drivers, to the worker pool and to the     *)
(* server return "ok" or "fail" nondeterministically.                      *)
(***************************************************************************)
EXTENDS Integers, Sequences, FiniteSets, TLC

\* ------------------------------------------------------------ bounds
NumCallers == 2
MaxCalls == 2
MaxBatch == 2
MaxPushes == 3
MaxResets == 1
NumPollers == 2

\* ------------------------------------------------------------ domains
Names == {"p1", "p2"}
DriverTypes == {"", "ephemeral", "unknown"}
PipePriorities == {3}
JobPriorities == {0, 1}
Outcomes == {"ok", "fail"}
Callers == 1..NumCallers
Pollers == 1..NumPollers

NoPipe == [name |-> "", driver |-> "", priority |-> 0]
Pipeline(n, dr, pr) == [name |-> n, driver |-> dr, priority |-> pr]
DeclareInputs == {Pipeline(n, dr, pr) : n \in Names, dr \in DriverTypes, pr \in PipePriorities}
JobInputs == [pipeline : Names, priority : JobPriorities]
DispatchPriorities == {1, 2, 3}
DispatchJobs == [pipeline : {"p1"}, priority : DispatchPriorities]
BatchInputs == UNION {[1..k -> JobInputs] : k \in 1..MaxBatch}
NameLists == {<<n>> : n \in Names} \cup {<<n, m>> : n \in Names, m \in Names}

\* the configurations Init starts from: cfg.Pipelines of Init (lines 81-83)
ConfiguredPipelines ==
  { [n \in Names |-> IF n = "p1" THEN Pipeline("p1", "ephemeral", 2) ELSE NoPipe],
    [n \in Names |-> IF n = "p1" THEN Pipeline("p1", "ephemeral", 2) ELSE Pipeline("p2", "ephemeral", 3)],
    [n \in Names |-> IF n = "p1" THEN Pipeline("p1", "ephemeral", 2) ELSE Pipeline("p2", "unknown", 3)] }

VARIABLES
  jobConstructors,  \* p.jobConstructors: the driver types with a constructor
  pipelines,        \* p.pipelines (sync.Map): name -> pipeline, NoPipe when absent
  consumers,        \* p.consumers: name -> driver instance (index in drv), 0 when absent
  consume,          \* p.consume: the names to Run
  drv,              \* the driver instances constructed so far, as seen through jobs.Consumer
  queue,            \* p.queue: the jobs in the priority queue, in insertion order
  nextJob,          \* identity of the next job a driver inserts
  workersPool,      \* p.workersPool: 0 is nil, k > 0 the k-th pool created
  nextPool,         \* number of pools created so far, plus one
  rw,               \* the embedded sync.RWMutex: readers and writer
  stopCh,           \* p.stopCh: number of buffered stop signals (capacity 1)
  errCh,            \* Serve's errCh: the buffered errors (capacity 1)
  serve,            \* position of Serve
  poller,           \* position of each poller goroutine
  caller,           \* position of each API caller
  calls,            \* number of API calls started
  reset,            \* position of Reset
  stop,             \* position of Stop and of its sender goroutine
  acks,             \* per job: who extracted it and the Ack/Nack calls made on it
  removals,         \* per name: Destroy removals since the name was last stored
  panicked          \* the process died of a Go panic or runtime fatal error

vars == <<jobConstructors, pipelines, consumers, consume, drv, queue, nextJob,
          workersPool, nextPool, rw, stopCh, errCh, serve, poller, caller, calls,
          reset, stop, acks, removals, panicked>>

registryVars == <<pipelines, consumers, drv, removals>>
dispatchVars == <<workersPool, nextPool, rw, stopCh, poller, reset, stop>>
dispatchVarsButPoller == <<workersPool, nextPool, rw, stopCh, reset, stop>>
configVars == <<jobConstructors, consume>>
serveVars == <<errCh, serve>>

StopChCap == 1
ErrChCap == 1

IdleCaller ==
  [op |-> "none", pc |-> "idle", pl |-> NoPipe, names |-> <<>>, jobs |-> <<>>,
   i |-> 0, ppl |-> NoPipe, d |-> 0, err |-> "nil", handed |-> <<>>, had |-> FALSE]

Init ==
  /\ jobConstructors = {"ephemeral"}
  /\ pipelines \in ConfiguredPipelines
  /\ consumers = [n \in Names |-> 0]
  /\ consume = {"p1"}
  /\ drv = <<>>
  /\ queue = <<>>
  /\ nextJob = 1
  /\ workersPool = 0
  /\ nextPool = 1
  /\ rw = [readers |-> {}, writer |-> FALSE]
  /\ stopCh = 0
  /\ errCh = <<>>
  /\ serve = [pc |-> "walk", todo |-> {n \in Names : pipelines[n] # NoPipe}]
  /\ poller = [p \in Pollers |-> [pc |-> "off", job |-> 0, prio |-> 0, pool |-> 0]]
  /\ caller = [c \in Callers |-> IdleCaller]
  /\ calls = 0
  /\ reset = [pc |-> "idle", n |-> 0, err |-> "nil"]
  /\ stop = [pc |-> "idle", sender |-> "off", sent |-> 0]
  /\ acks = <<>>
  /\ removals = [n \in Names |-> 0]
  /\ panicked = FALSE

\* List(): the keys of p.pipelines
List == {n \in Names : pipelines[n] # NoPipe}

\* a new driver instance, as returned by JobsConstruct / FromPipeline
NewDriver(n) == [name |-> n, st |-> "constructed", stops |-> 0, paused |-> FALSE]

\* ------------------------------------------------------------ Serve
\* one iteration of the Range over p.pipelines
ServeWalk(n) ==
  /\ ~panicked
  /\ serve.pc = "walk"
  /\ n \in serve.todo
  /\ IF pipelines[n].driver \in jobConstructors
     THEN \E out \in {"ok", "construct", "register", "run"} :
            /\ out = "run" => n \in consume
            /\ IF out = "construct"
               THEN UNCHANGED <<drv, consumers>>
               ELSE /\ drv' = Append(drv, [NewDriver(n) EXCEPT !.st =
                                 IF out = "register" THEN "constructed"
                                 ELSE IF out = "ok" /\ n \in consume THEN "running"
                                 ELSE "registered"])
                    /\ consumers' = [consumers EXCEPT ![n] = Len(drv) + 1]
            /\ IF out = "ok"
               THEN /\ serve' = [serve EXCEPT !.todo = @ \ {n},
                                             !.pc = IF serve.todo = {n} THEN "pool" ELSE "walk"]
                    /\ UNCHANGED errCh
               ELSE /\ serve' = [serve EXCEPT !.pc = "pool"]
                    /\ errCh' = Append(errCh, out)
     ELSE /\ serve' = [serve EXCEPT !.todo = @ \ {n},
                                   !.pc = IF serve.todo = {n} THEN "pool" ELSE "walk"]
          /\ UNCHANGED <<drv, consumers, errCh>>
  /\ UNCHANGED <<pipelines, removals, queue, nextJob, acks, caller, calls, panicked>>
  /\ UNCHANGED <<dispatchVars, configVars>>

\* NewWorkerPool, and the start of the pollers
ServePool ==
  /\ ~panicked
  /\ serve.pc = "pool"
  /\ \E out \in Outcomes :
       IF out = "ok"
       THEN /\ workersPool' = nextPool
            /\ nextPool' = nextPool + 1
            /\ poller' = [p \in Pollers |-> [poller[p] EXCEPT !.pc = "poll"]]
            /\ serve' = [serve EXCEPT !.pc = "done"]
            /\ UNCHANGED errCh
       ELSE /\ UNCHANGED <<workersPool, nextPool, poller>>
            /\ IF Len(errCh) < ErrChCap
               THEN /\ errCh' = Append(errCh, "pool")
                    /\ serve' = [serve EXCEPT !.pc = "done"]
               ELSE /\ serve' = [serve EXCEPT !.pc = "blocked"]
                    /\ UNCHANGED errCh
  /\ UNCHANGED <<rw, stopCh, reset, stop, acks>>
  /\ UNCHANGED <<registryVars, configVars, queue, nextJob, caller, calls, panicked>>

\* the API is served once Serve has returned without an error
Serving == serve.pc = "done" /\ errCh = <<>> /\ ~panicked

\* callers are numbered in the order of their first call
CanCall(c) ==
  /\ Serving
  /\ calls < MaxCalls
  /\ caller[c].pc \in {"idle", "done"}
  /\ IF c = 1 THEN TRUE ELSE caller[c - 1].pc # "idle"

Done(c, e) == [caller[c] EXCEPT !.pc = "done", !.err = e]

\* ------------------------------------------------------------ Declare
\* lines 395-410: the driver check, the constructor lookup and FromPipeline
DeclareBegin(c, pl) ==
  /\ CanCall(c)
  /\ calls' = calls + 1
  /\ LET st == [IdleCaller EXCEPT !.op = "Declare", !.pl = pl,
                                  !.had = (pipelines[pl.name] # NoPipe)]
     IN IF pl.driver = ""
        THEN /\ caller' = [caller EXCEPT ![c] = [st EXCEPT !.pc = "done", !.err = "NoDriver"]]
             /\ UNCHANGED drv
        ELSE IF pl.driver \in jobConstructors
        THEN \E out \in Outcomes :
               IF out = "ok"
               THEN /\ drv' = Append(drv, NewDriver(pl.name))
                    /\ caller' = [caller EXCEPT ![c] = [st EXCEPT !.pc = "store", !.d = Len(drv) + 1]]
               ELSE /\ caller' = [caller EXCEPT ![c] = [st EXCEPT !.pc = "done", !.err = "Construct"]]
                    /\ UNCHANGED drv
        ELSE /\ caller' = [caller EXCEPT ![c] = [st EXCEPT !.pc = "storepipe"]]
             /\ UNCHANGED drv
  /\ UNCHANGED <<pipelines, consumers, removals, queue, nextJob, acks, panicked>>
  /\ UNCHANGED <<dispatchVars, configVars, serveVars>>

\* line 413: p.consumers[pipeline.Name()] = initializedDriver
DeclareStoreConsumer(c) ==
  /\ ~panicked
  /\ caller[c].op = "Declare" /\ caller[c].pc = "store"
  /\ consumers' = [consumers EXCEPT ![caller[c].pl.name] = caller[c].d]
  /\ caller' = [caller EXCEPT ![c].pc = "register"]
  /\ UNCHANGED <<pipelines, drv, removals, queue, nextJob, acks, calls, panicked>>
  /\ UNCHANGED <<dispatchVars, configVars, serveVars>>

\* lines 416-427: Register, and Run when the pipeline is in p.consume
DeclareRegister(c) ==
  /\ ~panicked
  /\ caller[c].op = "Declare" /\ caller[c].pc = "register"
  /\ \E out \in {"ok", "register", "run"} :
       /\ out = "run" => caller[c].pl.name \in consume
       /\ drv' = [drv EXCEPT ![caller[c].d].st =
                    IF out = "register" THEN @
                    ELSE IF out = "ok" /\ caller[c].pl.name \in consume THEN "running"
                    ELSE "registered"]
       /\ caller' = [caller EXCEPT ![c] =
                    IF out = "ok" THEN [@ EXCEPT !.pc = "storepipe"]
                    ELSE IF out = "register" THEN Done(c, "Register")
                    ELSE Done(c, "Run")]
  /\ UNCHANGED <<pipelines, consumers, removals, queue, nextJob, acks, calls, panicked>>
  /\ UNCHANGED <<dispatchVars, configVars, serveVars>>

\* line 430: p.pipelines.Store(pipeline.Name(), pipeline)
DeclareStorePipe(c) ==
  /\ ~panicked
  /\ caller[c].op = "Declare" /\ caller[c].pc = "storepipe"
  /\ pipelines' = [pipelines EXCEPT ![caller[c].pl.name] = caller[c].pl]
  /\ removals' = [removals EXCEPT ![caller[c].pl.name] = 0]
  /\ caller' = [caller EXCEPT ![c] = Done(c, "nil")]
  /\ UNCHANGED <<consumers, drv, queue, nextJob, acks, calls, panicked>>
  /\ UNCHANGED <<dispatchVars, configVars, serveVars>>

\* ------------------------------------------------------------ Destroy
\* lines 438-444: p.pipelines.Load(pp)
DestroyLoad(c, pp) ==
  /\ CanCall(c)
  /\ calls' = calls + 1
  /\ LET st == [IdleCaller EXCEPT !.op = "Destroy", !.names = <<pp>>]
     IN caller' = [caller EXCEPT ![c] =
                    IF pipelines[pp] = NoPipe
                    THEN [st EXCEPT !.pc = "done", !.err = "NotFound"]
                    ELSE [st EXCEPT !.pc = "lookup", !.ppl = pipelines[pp]]]
  /\ UNCHANGED <<registryVars, queue, nextJob, acks, panicked>>
  /\ UNCHANGED <<dispatchVars, configVars, serveVars>>

\* lines 446-449: d, ok := p.consumers[ppl.Name()]
DestroyLookup(c) ==
  /\ ~panicked
  /\ caller[c].op = "Destroy" /\ caller[c].pc = "lookup"
  /\ caller' = [caller EXCEPT ![c] =
                  IF consumers[caller[c].ppl.name] = 0
                  THEN Done(c, "NoConsumer")
                  ELSE [@ EXCEPT !.pc = "delete", !.d = consumers[caller[c].ppl.name]]]
  /\ UNCHANGED <<registryVars, queue, nextJob, acks, calls, panicked>>
  /\ UNCHANGED <<dispatchVars, configVars, serveVars>>

\* line 452: delete(p.consumers, ppl.Name())
DestroyDeleteConsumer(c) ==
  /\ ~panicked
  /\ caller[c].op = "Destroy" /\ caller[c].pc = "delete"
  /\ consumers' = [consumers EXCEPT ![caller[c].ppl.name] = 0]
  /\ caller' = [caller EXCEPT ![c].pc = "deletepipe"]
  /\ UNCHANGED <<pipelines, drv, removals, queue, nextJob, acks, calls, panicked>>
  /\ UNCHANGED <<dispatchVars, configVars, serveVars>>

\* a Destroy that leaves the pipeline in the registry
DeletePipeSkipped(pp) == pipelines

\* line 453: p.pipelines.Delete(pp)
DeletePipe(pp) == [pipelines EXCEPT ![pp] = NoPipe]

DestroyDeletePipe(c) ==
  /\ ~panicked
  /\ caller[c].op = "Destroy" /\ caller[c].pc = "deletepipe"
  /\ pipelines' = DeletePipe(caller[c].names[1])
  /\ removals' = [removals EXCEPT ![caller[c].names[1]] = @ + 1]
  /\ caller' = [caller EXCEPT ![c].pc = "stop"]
  /\ UNCHANGED <<consumers, drv, queue, nextJob, acks, calls, panicked>>
  /\ UNCHANGED <<dispatchVars, configVars, serveVars>>

\* a Destroy that puts the pipeline and the driver back when the driver's Stop fails
DestroyStopRestoring(c) ==
  /\ ~panicked
  /\ caller[c].op = "Destroy" /\ caller[c].pc = "stop"
  /\ drv' = [drv EXCEPT ![caller[c].d] = [@ EXCEPT !.st = "stopped", !.stops = @ + 1]]
  /\ \E out \in Outcomes :
       /\ caller' = [caller EXCEPT ![c] = Done(c, IF out = "ok" THEN "nil" ELSE "Stop")]
       /\ IF out = "ok"
          THEN UNCHANGED <<pipelines, consumers>>
          ELSE /\ pipelines' = [pipelines EXCEPT ![caller[c].names[1]] = caller[c].ppl]
               /\ consumers' = [consumers EXCEPT ![caller[c].ppl.name] = caller[c].d]
  /\ UNCHANGED <<removals, queue, nextJob, acks, calls, panicked>>
  /\ UNCHANGED <<dispatchVars, configVars, serveVars>>

\* line 455: return d.Stop()
DestroyStop(c) ==
  /\ ~panicked
  /\ caller[c].op = "Destroy" /\ caller[c].pc = "stop"
  /\ drv' = [drv EXCEPT ![caller[c].d] = [@ EXCEPT !.st = "stopped", !.stops = @ + 1]]
  /\ \E out \in Outcomes :
       caller' = [caller EXCEPT ![c] = Done(c, IF out = "ok" THEN "nil" ELSE "Stop")]
  /\ UNCHANGED <<pipelines, consumers, removals, queue, nextJob, acks, calls, panicked>>
  /\ UNCHANGED <<dispatchVars, configVars, serveVars>>

\* ------------------------------------------------------------ Push, PushBatch
\* a Push that leaves the job's priority as the caller gave it
EffectivePriorityAsGiven(jp, ppl) == jp

\* lines 311-313 and 341-343: a job without priority inherits the pipeline's
EffectivePriority(jp, ppl) == IF jp = 0 THEN ppl.priority ELSE jp

\* the priority queue's Insert, called by the driver
Insert(q, job) == Append(q, job)

\* what a caller records of one job handed to a driver's Push (or of one name
\* handed to a driver's Pause or Resume)
Hand(idx, pprio, pr, ok, id) ==
  [idx |-> idx, pprio |-> pprio, priority |-> pr, ok |-> ok, id |-> id]

NoAcks == [by |-> 0, log |-> <<>>]

\* a PushBatch that goes on with the next job after a failure
BatchNextContinue(st, e) ==
  IF st.i = Len(st.jobs)
  THEN [st EXCEPT !.pc = "done", !.err = IF e # "nil" THEN e ELSE @]
  ELSE [st EXCEPT !.pc = "load", !.i = @ + 1, !.err = IF e # "nil" THEN e ELSE @]

\* lines 326-349: PushBatch's loop goes on to the next job or returns
BatchNext(st, e) ==
  IF e # "nil" THEN [st EXCEPT !.pc = "done", !.err = e]
  ELSE IF st.i = Len(st.jobs) THEN [st EXCEPT !.pc = "done"]
  ELSE [st EXCEPT !.pc = "load", !.i = @ + 1]

\* lines 304-318 and 335-348: the consumer lookup, the priority and d.Push
RouteToDriver(c) ==
  LET st == caller[c]
      j == st.jobs[st.i]
      d == consumers[st.ppl.name]
      pr == EffectivePriority(j.priority, st.ppl)
  IN IF d = 0
     THEN /\ caller' = [caller EXCEPT ![c] = BatchNext(st, "NoConsumer")]
          /\ UNCHANGED <<queue, nextJob, acks>>
     ELSE \E out \in Outcomes :
            /\ IF out = "ok"
               THEN /\ queue' = Insert(queue, [id |-> nextJob, pipeline |-> j.pipeline, priority |-> pr])
                    /\ nextJob' = nextJob + 1
                    /\ acks' = Append(acks, NoAcks)
               ELSE UNCHANGED <<queue, nextJob, acks>>
            /\ caller' = [caller EXCEPT ![c] =
                 BatchNext([st EXCEPT !.d = d,
                               !.handed = Append(@, Hand(st.i, st.ppl.priority, pr, out = "ok",
                                                         IF out = "ok" THEN nextJob ELSE 0))],
                           IF out = "ok" THEN "nil" ELSE "Push")]

\* a lookup that skips a job whose pipeline is missing instead of returning the error
LoadForJobSkipMissing(st) ==
  IF pipelines[st.jobs[st.i].pipeline] = NoPipe
  THEN BatchNext(st, "nil")
  ELSE [st EXCEPT !.pc = "lookup", !.ppl = pipelines[st.jobs[st.i].pipeline]]

\* lines 296-299 and 328-331: p.pipelines.Load(j.Options.Pipeline)
LoadForJob(st) ==
  IF pipelines[st.jobs[st.i].pipeline] = NoPipe
  THEN BatchNext(st, "NotFound")
  ELSE [st EXCEPT !.pc = "lookup", !.ppl = pipelines[st.jobs[st.i].pipeline]]

PushStart(c, j) ==
  /\ calls' = calls + 1
  /\ caller' = [caller EXCEPT ![c] =
                  LoadForJob([IdleCaller EXCEPT !.op = "Push", !.jobs = <<j>>, !.i = 1])]
  /\ UNCHANGED <<registryVars, queue, nextJob, acks, panicked>>
  /\ UNCHANGED <<dispatchVars, configVars, serveVars>>

PushLoad(c, j) == CanCall(c) /\ PushStart(c, j)

\* Push as the dispatch specification calls it: one producer, MaxPushes jobs
Produce(j) ==
  /\ Serving
  /\ calls < MaxPushes
  /\ caller[1].pc \in {"idle", "done"}
  /\ PushStart(1, j)

PushLookup(c) ==
  /\ ~panicked
  /\ caller[c].op = "Push" /\ caller[c].pc = "lookup"
  /\ RouteToDriver(c)
  /\ UNCHANGED <<registryVars, calls, panicked>>
  /\ UNCHANGED <<dispatchVars, configVars, serveVars>>

PushBatchBegin(c, js) ==
  /\ CanCall(c)
  /\ calls' = calls + 1
  /\ caller' = [caller EXCEPT ![c] =
                  LoadForJob([IdleCaller EXCEPT !.op = "PushBatch", !.jobs = js, !.i = 1])]
  /\ UNCHANGED <<registryVars, queue, nextJob, acks, panicked>>
  /\ UNCHANGED <<dispatchVars, configVars, serveVars>>

PushBatchLoad(c) ==
  /\ ~panicked
  /\ caller[c].op = "PushBatch" /\ caller[c].pc = "load"
  /\ caller' = [caller EXCEPT ![c] = LoadForJob(caller[c])]
  /\ UNCHANGED <<registryVars, queue, nextJob, acks, calls, panicked>>
  /\ UNCHANGED <<dispatchVars, configVars, serveVars>>

PushBatchLookup(c) ==
  /\ ~panicked
  /\ caller[c].op = "PushBatch" /\ caller[c].pc = "lookup"
  /\ RouteToDriver(c)
  /\ UNCHANGED <<registryVars, calls, panicked>>
  /\ UNCHANGED <<dispatchVars, configVars, serveVars>>

\* ------------------------------------------------------------ Pause, Resume
\* lines 356-361 and 376-381: p.pipelines.Load(pipelines[i]); a name that is not
\* found is logged and the nil value is then type-asserted, which panics
ToggleLoad(c, st) ==
  IF pipelines[st.names[st.i]] = NoPipe
  THEN /\ caller' = [caller EXCEPT ![c] = [st EXCEPT !.pc = "panic"]]
       /\ panicked' = TRUE
  ELSE /\ caller' = [caller EXCEPT ![c] = [st EXCEPT !.pc = "lookup", !.ppl = pipelines[st.names[st.i]]]]
       /\ UNCHANGED panicked

\* lines 363-370 and 383-390: the consumer lookup, then d.Pause or d.Resume
ToggleLookup(c, paused) ==
  LET st == caller[c]
      d == consumers[st.ppl.name]
  IN IF d = 0
     THEN /\ caller' = [caller EXCEPT ![c] = [st EXCEPT !.pc = "done"]]
          /\ UNCHANGED drv
     ELSE /\ drv' = [drv EXCEPT ![d].paused = paused]
          /\ caller' = [caller EXCEPT ![c] =
               [st EXCEPT !.d = d,
                          !.handed = Append(@, Hand(st.i, 0, 0, TRUE, 0)),
                          !.pc = IF st.i = Len(st.names) THEN "done" ELSE "load",
                          !.i = IF st.i = Len(st.names) THEN @ ELSE @ + 1]]

PauseBegin(c, ns) ==
  /\ CanCall(c)
  /\ calls' = calls + 1
  /\ ToggleLoad(c, [IdleCaller EXCEPT !.op = "Pause", !.names = ns, !.i = 1])
  /\ UNCHANGED <<registryVars, queue, nextJob, acks>>
  /\ UNCHANGED <<dispatchVars, configVars, serveVars>>

PauseLoad(c) ==
  /\ ~panicked
  /\ caller[c].op = "Pause" /\ caller[c].pc = "load"
  /\ ToggleLoad(c, caller[c])
  /\ UNCHANGED <<registryVars, queue, nextJob, acks, calls>>
  /\ UNCHANGED <<dispatchVars, configVars, serveVars>>

PauseLookup(c) ==
  /\ ~panicked
  /\ caller[c].op = "Pause" /\ caller[c].pc = "lookup"
  /\ ToggleLookup(c, TRUE)
  /\ UNCHANGED <<pipelines, consumers, removals, queue, nextJob, acks, calls, panicked>>
  /\ UNCHANGED <<dispatchVars, configVars, serveVars>>

ResumeBegin(c, ns) ==
  /\ CanCall(c)
  /\ calls' = calls + 1
  /\ ToggleLoad(c, [IdleCaller EXCEPT !.op = "Resume", !.names = ns, !.i = 1])
  /\ UNCHANGED <<registryVars, queue, nextJob, acks>>
  /\ UNCHANGED <<dispatchVars, configVars, serveVars>>

ResumeLoad(c) ==
  /\ ~panicked
  /\ caller[c].op = "Resume" /\ caller[c].pc = "load"
  /\ ToggleLoad(c, caller[c])
  /\ UNCHANGED <<registryVars, queue, nextJob, acks, calls>>
  /\ UNCHANGED <<dispatchVars, configVars, serveVars>>

ResumeLookup(c) ==
  /\ ~panicked
  /\ caller[c].op = "Resume" /\ caller[c].pc = "lookup"
  /\ ToggleLookup(c, FALSE)
  /\ UNCHANGED <<pipelines, consumers, removals, queue, nextJob, acks, calls, panicked>>
  /\ UNCHANGED <<dispatchVars, configVars, serveVars>>

\* ------------------------------------------------------------ the consumers map
\* p.consumers is a plain Go map: a write that runs while another goroutine reads
\* or writes it is a data race, which the runtime may detect and abort on
ConsumersWriter(c) ==
  \/ caller[c].op = "Declare" /\ caller[c].pc = "store"
  \/ caller[c].op = "Destroy" /\ caller[c].pc = "delete"

ConsumersReader(c) == caller[c].pc = "lookup"

MapRace ==
  \E c1, c2 \in Callers :
    c1 # c2 /\ ConsumersWriter(c1) /\ (ConsumersWriter(c2) \/ ConsumersReader(c2))

MapRaceFatal ==
  /\ ~panicked
  /\ MapRace
  /\ panicked' = TRUE
  /\ UNCHANGED <<registryVars, queue, nextJob, acks, caller, calls>>
  /\ UNCHANGED <<dispatchVars, configVars, serveVars>>

\* ------------------------------------------------------------ specifications
\* the registry and its API: Serve, then concurrent API callers
Next ==
  \/ \E n \in Names : ServeWalk(n)
  \/ ServePool
  \/ \E c \in Callers, pl \in DeclareInputs : DeclareBegin(c, pl)
  \/ \E c \in Callers, pp \in Names : DestroyLoad(c, pp)
  \/ \E c \in Callers, j \in JobInputs : PushLoad(c, j)
  \/ \E c \in Callers, js \in BatchInputs : PushBatchBegin(c, js)
  \/ \E c \in Callers, ns \in NameLists : PauseBegin(c, ns)
  \/ \E c \in Callers, ns \in NameLists : ResumeBegin(c, ns)
  \/ \E c \in Callers :
       \/ DeclareStoreConsumer(c)
       \/ DeclareRegister(c)
       \/ DeclareStorePipe(c)
       \/ DestroyLookup(c)
       \/ DestroyDeleteConsumer(c)
       \/ DestroyDeletePipe(c)
       \/ DestroyStop(c)
       \/ PushLookup(c)
       \/ PushBatchLoad(c)
       \/ PushBatchLookup(c)
       \/ PauseLoad(c)
       \/ PauseLookup(c)
       \/ ResumeLoad(c)
       \/ ResumeLookup(c)
  \/ MapRaceFatal

Spec == Init /\ [][Next]_vars

\* ------------------------------------------------------------ the priority queue
\* an ExtractMin that returns the oldest job whatever its priority
MinIndexOldest(q) == CHOOSE i \in 1..Len(q) : \A k \in 1..Len(q) : i <= k

\* ExtractMin: the position of the job it returns, the lowest priority value and,
\* among equals, the first inserted
MinIndex(q) ==
  CHOOSE i \in 1..Len(q) :
    \A k \in 1..Len(q) : q[i].priority < q[k].priority \/ (q[i].priority = q[k].priority /\ i <= k)

Remove(q, i) == SubSeq(q, 1, i - 1) \o SubSeq(q, i + 1, Len(q))

\* ------------------------------------------------------------ the poller loop
\* a poller that calls Exec without waiting for the writer
CanRLockIgnoringWriter == TRUE

\* line 204: p.RLock() returns while no writer holds the mutex
CanRLock == ~rw.writer

\* line 273: p.Lock() returns while nobody holds the mutex
CanLock == ~rw.writer /\ rw.readers = {}

Acked(p, kind) == [acks EXCEPT ![poller[p].job].log = Append(@, [by |-> p, kind |-> kind])]

\* a poller that also looks at the stop channel while it waits for the read lock
AtSelectOrWaiting(p) ==
  \/ poller[p].pc = "poll"
  \/ poller[p].pc = "rlock" /\ stopCh > 0

\* line 180: the select is the first statement of the loop body and the only
\* receive from p.stopCh
AtSelect(p) == poller[p].pc = "poll"

\* lines 180-184: the select on p.stopCh, with ExtractMin as its default
PollerSelect(p) ==
  /\ ~panicked
  /\ AtSelect(p)
  /\ IF stopCh > 0
     THEN /\ stopCh' = stopCh - 1
          /\ poller' = [poller EXCEPT ![p].pc = "stopped"]
     ELSE /\ poller' = [poller EXCEPT ![p].pc = "extract"]
          /\ UNCHANGED stopCh
  /\ UNCHANGED <<workersPool, nextPool, rw, reset, stop>>
  /\ UNCHANGED <<registryVars, configVars, serveVars, queue, nextJob, acks, caller, calls, panicked>>

\* line 186: job := p.queue.ExtractMin(), which blocks while the queue is empty
PollerExtract(p) ==
  /\ ~panicked
  /\ poller[p].pc = "extract"
  /\ queue # <<>>
  /\ LET i == MinIndex(queue)
     IN /\ poller' = [poller EXCEPT ![p] = [@ EXCEPT !.pc = "context", !.job = queue[i].id,
                                                   !.prio = queue[i].priority]]
        /\ acks' = [acks EXCEPT ![queue[i].id].by = p]
        /\ queue' = Remove(queue, i)
  /\ UNCHANGED <<registryVars, configVars, serveVars, dispatchVarsButPoller, nextJob, caller, calls, panicked>>

\* lines 188-196: job.Context(), and Nack when it fails
PollerContext(p) ==
  /\ ~panicked
  /\ poller[p].pc = "context"
  /\ \E out \in Outcomes :
       IF out = "ok"
       THEN /\ poller' = [poller EXCEPT ![p].pc = "rlock"]
            /\ UNCHANGED acks
       ELSE /\ poller' = [poller EXCEPT ![p] = [@ EXCEPT !.pc = "poll", !.job = 0, !.prio = 0]]
            /\ acks' = Acked(p, "Nack")
  /\ UNCHANGED <<registryVars, configVars, serveVars, dispatchVarsButPoller, queue, nextJob, caller, calls, panicked>>

\* line 204: p.RLock()
PollerRLock(p) ==
  /\ ~panicked
  /\ poller[p].pc = "rlock"
  /\ CanRLock
  /\ rw' = [rw EXCEPT !.readers = @ \cup {p}]
  /\ poller' = [poller EXCEPT ![p].pc = "exec"]
  /\ UNCHANGED <<workersPool, nextPool, stopCh, reset, stop>>
  /\ UNCHANGED <<registryVars, configVars, serveVars, queue, nextJob, acks, caller, calls, panicked>>

\* line 205: p.workersPool.Exec(exec) is entered; on a nil pool the call panics
PollerExecBegin(p) ==
  /\ ~panicked
  /\ poller[p].pc = "exec"
  /\ IF workersPool = 0
     THEN /\ poller' = [poller EXCEPT ![p].pc = "panic"]
          /\ panicked' = TRUE
     ELSE /\ poller' = [poller EXCEPT ![p] = [@ EXCEPT !.pc = "inexec", !.pool = workersPool]]
          /\ UNCHANGED panicked
  /\ UNCHANGED <<registryVars, configVars, serveVars, dispatchVarsButPoller, queue, nextJob, acks, caller, calls>>

\* lines 205-216: Exec returns; on an error Nack, then RUnlock
PollerExecEnd(p) ==
  /\ ~panicked
  /\ poller[p].pc = "inexec"
  /\ rw' = [rw EXCEPT !.readers = @ \ {p}]
  /\ \E out \in Outcomes :
       IF out = "ok"
       THEN /\ poller' = [poller EXCEPT ![p] = [@ EXCEPT !.pc = "ack", !.pool = 0]]
            /\ UNCHANGED acks
       ELSE /\ poller' = [poller EXCEPT ![p] = [@ EXCEPT !.pc = "poll", !.job = 0, !.prio = 0, !.pool = 0]]
            /\ acks' = Acked(p, "Nack")
  /\ UNCHANGED <<workersPool, nextPool, stopCh, reset, stop>>
  /\ UNCHANGED <<registryVars, configVars, serveVars, queue, nextJob, caller, calls, panicked>>

\* lines 218-221: job.Ack()
PollerAck(p) ==
  /\ ~panicked
  /\ poller[p].pc = "ack"
  /\ acks' = Acked(p, "Ack")
  /\ poller' = [poller EXCEPT ![p] = [@ EXCEPT !.pc = "poll", !.job = 0, !.prio = 0]]
  /\ UNCHANGED <<registryVars, configVars, serveVars, dispatchVarsButPoller, queue, nextJob, caller, calls, panicked>>

\* ------------------------------------------------------------ Reset
\* lines 273-274: p.Lock()
ResetLock ==
  /\ Serving
  /\ reset.pc \in {"idle", "done"}
  /\ reset.n < MaxResets
  /\ CanLock
  /\ rw' = [rw EXCEPT !.writer = TRUE]
  /\ reset' = [pc |-> "destroy", n |-> reset.n + 1, err |-> "nil"]
  /\ UNCHANGED <<workersPool, nextPool, stopCh, poller, stop>>
  /\ UNCHANGED <<registryVars, configVars, serveVars, queue, nextJob, acks, caller, calls, panicked>>

\* lines 278-279: p.workersPool.Destroy(ctx); p.workersPool = nil
ResetDestroy ==
  /\ ~panicked
  /\ reset.pc = "destroy"
  /\ IF workersPool = 0
     THEN /\ reset' = [reset EXCEPT !.pc = "panic"]
          /\ panicked' = TRUE
          /\ UNCHANGED workersPool
     ELSE /\ reset' = [reset EXCEPT !.pc = "new"]
          /\ workersPool' = 0
          /\ UNCHANGED panicked
  /\ UNCHANGED <<nextPool, rw, stopCh, poller, stop>>
  /\ UNCHANGED <<registryVars, configVars, serveVars, queue, nextJob, acks, caller, calls>>

\* lines 281-289: NewWorkerPool, and the deferred p.Unlock()
ResetNew ==
  /\ ~panicked
  /\ reset.pc = "new"
  /\ \E out \in Outcomes :
       IF out = "ok"
       THEN /\ workersPool' = nextPool
            /\ nextPool' = nextPool + 1
            /\ reset' = [reset EXCEPT !.pc = "done"]
       ELSE /\ UNCHANGED <<workersPool, nextPool>>
            /\ reset' = [reset EXCEPT !.pc = "done", !.err = "pool"]
  /\ rw' = [rw EXCEPT !.writer = FALSE]
  /\ UNCHANGED <<stopCh, poller, stop>>
  /\ UNCHANGED <<registryVars, configVars, serveVars, queue, nextJob, acks, caller, calls, panicked>>

\* ------------------------------------------------------------ Stop
\* lines 232-248: Stop on every driver of p.consumers, then the sender goroutine
StopDrivers ==
  /\ ~panicked
  /\ serve.pc = "done"
  /\ stop.pc = "idle"
  /\ drv' = [d \in 1..Len(drv) |->
               IF \E n \in Names : consumers[n] = d
               THEN [drv[d] EXCEPT !.st = "stopped", !.stops = @ + 1]
               ELSE drv[d]]
  /\ stop' = [pc |-> "sleep", sender |-> "on", sent |-> 0]
  /\ UNCHANGED <<workersPool, nextPool, rw, stopCh, poller, reset>>
  /\ UNCHANGED <<pipelines, consumers, removals, configVars, serveVars, queue, nextJob, acks, caller, calls, panicked>>

\* a sender that stops one signal short of the number of pollers
StopSignalsOneShort == NumPollers - 1

\* line 244: for i := uint8(0); i < p.cfg.NumPollers; i++
StopSignals == NumPollers

\* line 246: p.stopCh <- struct{}{}, once per poller, blocking while the buffer is full
StopSend ==
  /\ ~panicked
  /\ stop.sender = "on"
  /\ stopCh < StopChCap
  /\ stopCh' = stopCh + 1
  /\ stop' = [stop EXCEPT !.sent = @ + 1,
                          !.sender = IF stop.sent + 1 >= StopSignals THEN "done" ELSE "on"]
  /\ UNCHANGED <<workersPool, nextPool, rw, poller, reset>>
  /\ UNCHANGED <<registryVars, configVars, serveVars, queue, nextJob, acks, caller, calls, panicked>>

\* a Stop that joins its sender goroutine before it returns
SleepOverSenderDone == stop.pc = "sleep" /\ stop.sender = "done"

\* line 251: time.Sleep returns by itself; Stop waits for nothing else
SleepOver == stop.pc = "sleep"

\* lines 251-253: the sleep ends and Stop returns
StopReturn ==
  /\ ~panicked
  /\ SleepOver
  /\ stop' = [stop EXCEPT !.pc = "done"]
  /\ UNCHANGED <<workersPool, nextPool, rw, stopCh, poller, reset>>
  /\ UNCHANGED <<registryVars, configVars, serveVars, queue, nextJob, acks, caller, calls, panicked>>

\* the dispatch engine: Serve, one producer, the pollers, Reset and Stop
InitDispatch == Init /\ List = {"p1"}

NextDispatch ==
  \/ \E n \in Names : ServeWalk(n)
  \/ ServePool
  \/ \E j \in DispatchJobs : Produce(j)
  \/ \E c \in Callers : PushLookup(c)
  \/ \E p \in Pollers :
       \/ PollerSelect(p)
       \/ PollerExtract(p)
       \/ PollerContext(p)
       \/ PollerRLock(p)
       \/ PollerExecBegin(p)
       \/ PollerExecEnd(p)
       \/ PollerAck(p)
  \/ ResetLock
  \/ ResetDestroy
  \/ ResetNew
  \/ StopDrivers
  \/ StopSend
  \/ StopReturn

SpecDispatch == InitDispatch /\ [][NextDispatch]_vars

\* ------------------------------------------------------------ the claims
\* no API call and no walk is in progress
Quiescent ==
  /\ serve.pc # "walk"
  /\ \A c \in Callers : caller[c].pc \in {"idle", "done", "panic"}

Resolves(n) == pipelines[n] # NoPipe /\ consumers[n] # 0

LiveDrivers(n) == {d \in 1..Len(drv) : drv[d].name = n /\ drv[d].st # "stopped"}

InQueue(id, pr) == \E k \in 1..Len(queue) : queue[k].id = id /\ queue[k].priority = pr

\* C1: a Declare whose driver type is not empty and has no constructor returns an
\* error and stores nothing: the name, when it was not declared before, is in
\* neither registry and not in List() afterwards.
C1_DeclareUnregisteredFails ==
  \A c \in Callers :
    (/\ caller[c].op = "Declare" /\ caller[c].pc = "done"
     /\ caller[c].pl.driver # "" /\ caller[c].pl.driver \notin jobConstructors)
    => /\ caller[c].err # "nil"
       /\ ~caller[c].had => (caller[c].pl.name \notin List /\ consumers[caller[c].pl.name] = 0)

\* the pollers that are between extracting a job and acknowledging it
Dispatching(p) == poller[p].pc \in {"context", "rlock", "exec", "inexec", "ack"}

\* C2: every job a poller extracted gets exactly one Ack or Nack, from the poller
\* that extracted it, before that poller is back polling (or gone): never two,
\* never one from another poller, and none only while the poller is dispatching it.
C2_ExactlyOneAck ==
  \A k \in 1..Len(acks) :
    acks[k].by # 0 =>
      /\ Len(acks[k].log) <= 1
      /\ \A m \in 1..Len(acks[k].log) : acks[k].log[m].by = acks[k].by
      /\ ~(Dispatching(acks[k].by) /\ poller[acks[k].by].job = k) => Len(acks[k].log) = 1

\* C3: while a poller is inside Exec, Reset is not between destroying the pool and
\* installing the new one, and the pool is the installed one the Exec started on.
C3_ResetExcludesExec ==
  \A p \in Pollers :
    poller[p].pc = "inexec" =>
      /\ reset.pc \notin {"destroy", "new"}
      /\ workersPool # 0
      /\ workersPool = poller[p].pool

\* C3 witness: after a Reset, all pollers are inside Exec on the new pool at once
C3_Witness ==
  /\ reset.pc = "done" /\ reset.err = "nil"
  /\ \A p \in Pollers : poller[p].pc = "inexec" /\ poller[p].pool = workersPool
  /\ workersPool > 1

\* the step in which caller c loads the pipeline of a job, and the job's index
IsLoadStep(c) ==
  /\ caller'[c] # caller[c]
  /\ caller'[c].op \in {"Push", "PushBatch"}
  /\ caller[c].pc \in {"idle", "done", "load"}

LoadedName(c) ==
  caller'[c].jobs[IF caller[c].pc = "load" THEN caller[c].i ELSE 1].pipeline

\* C4: once a Destroy has removed a name, and until a Declare stores it again, the
\* pipeline lookup of every Push and of every PushBatch entry for that name fails
\* with NotFound and ends the call, whatever the driver's Stop returned.
C4_PushAfterDestroyNotFound ==
  [][\A c \in Callers :
       (IsLoadStep(c) /\ removals[LoadedName(c)] > 0)
       => (caller'[c].pc = "done" /\ caller'[c].err = "NotFound")]_vars

\* C4 witness: a Destroy removed the name and returned its Stop's error, and a
\* Push to that name has returned NotFound
C4_Witness ==
  \E c, e \in Callers :
    /\ caller[c].op = "Push" /\ caller[c].pc = "done" /\ caller[c].err = "NotFound"
    /\ removals[caller[c].jobs[1].pipeline] > 0
    /\ caller[e].op = "Destroy" /\ caller[e].pc = "done" /\ caller[e].err = "Stop"
    /\ caller[e].names[1] = caller[c].jobs[1].pipeline

\* C5: between two stores of a name at most one Destroy removes it, and no driver
\* is stopped twice.
C5_DestroyOnce ==
  /\ \A n \in Names : removals[n] <= 1
  /\ \A d \in 1..Len(drv) : drv[d].stops <= 1

\* C6: when no call is in progress, every name with a driver in the consumer map
\* has a pipeline in the pipeline registry.
C6_ConsumerHasPipeline ==
  Quiescent => \A n \in Names : consumers[n] # 0 => pipelines[n] # NoPipe

\* C7: when no call is in progress, at most one driver constructed for a name has
\* not been stopped.
C7_OneLiveDriver ==
  Quiescent => \A n \in Names : Cardinality(LiveDrivers(n)) <= 1

\* C8: a Pause or Resume never panics, and when it returns every name of its list
\* that resolves to a pipeline and a driver has been handed to the driver.
C8_ToggleBestEffort ==
  \A c \in Callers :
    caller[c].op \in {"Pause", "Resume"} =>
      /\ caller[c].pc # "panic"
      /\ caller[c].pc = "done" =>
           \A i \in 1..Len(caller[c].names) :
             Resolves(caller[c].names[i]) =>
               \E k \in 1..Len(caller[c].handed) : caller[c].handed[k].idx = i

\* C9: a job handed to a driver's Push carries the priority of the pipeline the
\* call loaded when the caller gave priority 0, and the caller's priority
\* otherwise; the job the driver put in the queue carries it too.
C9_PriorityInheritance ==
  \A c \in Callers :
    caller[c].op \in {"Push", "PushBatch"} =>
      \A k \in 1..Len(caller[c].handed) :
        LET h == caller[c].handed[k]
            j == caller[c].jobs[h.idx]
        IN /\ h.priority = (IF j.priority = 0 THEN h.pprio ELSE j.priority)
           /\ h.ok => InQueue(h.id, h.priority)

\* C9 witness: a job given with priority 0 is in the queue with its pipeline's priority
C9_Witness ==
  \E c \in Callers :
    /\ caller[c].op \in {"Push", "PushBatch"}
    /\ \E k \in 1..Len(caller[c].handed) :
         LET h == caller[c].handed[k]
         IN /\ caller[c].jobs[h.idx].priority = 0
            /\ h.ok /\ h.priority = 3 /\ InQueue(h.id, 3)

\* C10: the jobs PushBatch has handed to drivers are the first jobs of its input,
\* in input order, once each; all but the last were accepted and are still in the
\* queue; when it returns an error, the last job handed is the failing one (a
\* driver error) or the one before it (a lookup error), and nothing after it.
C10_BatchStopsAtFirstFailure ==
  \A c \in Callers :
    caller[c].op = "PushBatch" =>
      LET st == caller[c]
          k == Len(st.handed)
      IN /\ \A m \in 1..k : st.handed[m].idx = m
         /\ \A m \in 1..k : st.handed[m].ok => InQueue(st.handed[m].id, st.handed[m].priority)
         /\ \A m \in 1..(k - 1) : st.handed[m].ok
         /\ st.pc = "done" =>
              /\ st.err = "nil" => (k = Len(st.jobs) /\ st.handed[k].ok)
              /\ st.err = "Push" => (k = st.i /\ ~st.handed[k].ok)
              /\ st.err \in {"NotFound", "NoConsumer"} =>
                   (k = st.i - 1 /\ \A m \in 1..k : st.handed[m].ok)

\* C10 witness: a batch returned NotFound for its second job, the first job is in
\* the queue and the job after the failing one was not handed to a driver
C10_Witness ==
  \E c \in Callers :
    /\ caller[c].op = "PushBatch" /\ caller[c].pc = "done"
    /\ caller[c].err = "NotFound" /\ caller[c].i = 2
    /\ Len(caller[c].jobs) > 1
    /\ Len(caller[c].handed) = 1 /\ caller[c].handed[1].ok
    /\ Len(queue) = 1

\* C11: a Push of a job whose pipeline name is not in the pipeline registry returns
\* NotFound in the step that loads the name, hands the job to no driver, and leaves
\* the queue, the pipeline registry, the consumer map and every driver unchanged.
C11_PushMissingChangesNothing ==
  [][\A c \in Callers :
       (IsLoadStep(c) /\ caller'[c].op = "Push" /\ pipelines[LoadedName(c)] = NoPipe)
       => /\ caller'[c].pc = "done" /\ caller'[c].err = "NotFound"
          /\ caller'[c].handed = <<>>
          /\ UNCHANGED <<queue, nextJob, pipelines, consumers, drv>>]_vars

\* C11 witness: a Push to a name that was never declared has returned NotFound
\* while the other pipeline is declared and has a driver
C11_Witness ==
  \E c \in Callers :
    /\ caller[c].op = "Push" /\ caller[c].pc = "done" /\ caller[c].err = "NotFound"
    /\ caller[c].handed = <<>>
    /\ pipelines[caller[c].jobs[1].pipeline] = NoPipe
    /\ removals[caller[c].jobs[1].pipeline] = 0
    /\ \E n \in Names : Resolves(n)

\* C12: a Reset that failed to create the new pool harms only its caller: no
\* poller is terminated by it and the process does not crash; a poller holding a
\* job while no pool is installed resolves the job and goes back to polling.
C12_FailedResetIsLocal ==
  (reset.pc = "done" /\ reset.err = "pool") =>
    /\ ~panicked
    /\ \A p \in Pollers : poller[p].pc # "panic"

\* the walk of Serve has sent an error on the error channel
WalkFailed == errCh # <<>> /\ errCh[1] \in {"construct", "register", "run"}

\* C13: once constructing, registering or running a driver has failed during the
\* walk of Serve, the error is on the error channel, the failed pipeline and the
\* ones after it stay unprocessed, and no poller loop is ever started.
C13_WalkFailureAbortsServing ==
  WalkFailed =>
    /\ serve.todo # {}
    /\ serve.pc # "walk"
    /\ \A p \in Pollers : poller[p].pc = "off"

\* C14: a Destroy that found the pipeline and its driver deletes the name from the
\* consumer map, then from the pipeline registry (the name leaves List()), and
\* then calls Stop on the driver it found, once, in its last step; it returns
\* what Stop returned, and whether Stop failed or not that step puts nothing back
\* into either map.
C14_DestroyRemovesAndStopsOnce ==
  [][\A c \in Callers :
       (caller[c].op = "Destroy" /\ caller'[c] # caller[c]) =>
         /\ caller[c].pc = "delete" =>
              (consumers'[caller[c].ppl.name] = 0 /\ drv' = drv)
         /\ caller[c].pc = "deletepipe" =>
              (caller[c].names[1] \notin List' /\ consumers' = consumers /\ drv' = drv)
         /\ caller[c].pc = "stop" =>
              /\ drv'[caller[c].d].stops = drv[caller[c].d].stops + 1
              /\ \A d \in 1..Len(drv) : d # caller[c].d => drv'[d] = drv[d]
              /\ caller'[c].pc = "done" /\ caller'[c].err \in {"nil", "Stop"}
              /\ pipelines' = pipelines /\ consumers' = consumers]_vars

\* C14 witness: a Destroy has returned its driver's Stop error; the name is in
\* neither map and the driver was stopped once
C14_Witness ==
  \E c \in Callers :
    /\ caller[c].op = "Destroy" /\ caller[c].pc = "done" /\ caller[c].err = "Stop"
    /\ caller[c].names[1] \notin List
    /\ consumers[caller[c].names[1]] = 0
    /\ drv[caller[c].d].stops = 1 /\ drv[caller[c].d].st = "stopped"

\* ------------------------------------------------------------ ordered dispatch
\* the producer has pushed all its jobs
AllPushed == calls = MaxPushes /\ caller[1].pc = "done"

\* the scenario of the priority test: Serve, the producer pushes its jobs, and
\* then one poller works the queue off
NextOrder ==
  \/ \E n \in Names : ServeWalk(n)
  \/ ServePool
  \/ \E j \in DispatchJobs : Produce(j)
  \/ \E c \in Callers : PushLookup(c)
  \/ AllPushed /\ PollerSelect(1)
  \/ AllPushed /\ PollerExtract(1)
  \/ AllPushed /\ PollerContext(1)
  \/ AllPushed /\ PollerRLock(1)
  \/ AllPushed /\ PollerExecBegin(1)
  \/ AllPushed /\ PollerExecEnd(1)
  \/ AllPushed /\ PollerAck(1)

SpecOrder == InitDispatch /\ [][NextOrder]_vars

\* C15: with the jobs pushed first and one poller dispatching them, each job handed
\* to the executor has a priority value no larger than any job still waiting, so
\* the executor receives the jobs in ascending priority; a job whose Exec
\* succeeded is Acked once by the poller, one whose Exec failed is Nacked once.
C15_AscendingDispatch ==
  [][\A p \in Pollers :
       /\ (poller[p].pc = "exec" /\ poller'[p].pc = "inexec") =>
            \A k \in 1..Len(queue) : poller[p].prio <= queue[k].priority
       /\ (poller[p].pc = "inexec" /\ poller'[p].pc # "inexec") =>
            \/ poller'[p].pc = "ack" /\ acks' = acks
            \/ poller'[p].pc = "poll" /\ acks'[poller[p].job].log = <<[by |-> p, kind |-> "Nack"]>>
       /\ (poller[p].pc = "ack" /\ poller'[p].pc # "ack") =>
            acks'[poller[p].job].log = <<[by |-> p, kind |-> "Ack"]>>]_vars

\* C15 witness: the jobs were pushed with priorities 3, 1, 2; the second one is
\* in Exec first while the other two wait
C15_Witness ==
  /\ AllPushed
  /\ poller[1].pc = "inexec" /\ poller[1].job = 2 /\ poller[1].prio = 1
  /\ Len(queue) = 2
  /\ queue[1].id = 1 /\ queue[1].priority = 3
  /\ queue[2].id = 3 /\ queue[2].priority = 2

\* C16: no two callers are at an access of the consumer map at the same time with
\* at least one of them writing it.
C16_ConsumerMapRaceFree == ~MapRace

\* C17: a poller that has left its loop on the stop signal holds no job, and every
\* job it ever extracted has its one Ack or Nack: the signal is taken between
\* two jobs, never between extracting a job and acknowledging it.
C17_StopOnlyBetweenJobs ==
  \A p \in Pollers :
    poller[p].pc = "stopped" =>
      /\ poller[p].job = 0
      /\ \A k \in 1..Len(acks) : acks[k].by = p => Len(acks[k].log) = 1

\* C17 witness: Stop was called while both pollers were dispatching; one has
\* acknowledged its job and left, the other is still inside Exec
C17_Witness ==
  \E p, q \in Pollers :
    /\ stop.pc # "idle"
    /\ poller[p].pc = "stopped"
    /\ \E k \in 1..Len(acks) : acks[k].by = p /\ Len(acks[k].log) = 1
    /\ poller[q].pc = "inexec" /\ poller[q].job # 0

\* ------------------------------------------------------------ stopping the pollers
\* a job arrives in the queue whenever it is empty, so that no ExtractMin blocks
\* for ever; once MaxPushes jobs exist, the identifier of a finished job names
\* the next one
Feed ==
  /\ ~panicked
  /\ serve.pc = "done"
  /\ queue = <<>>
  /\ IF nextJob <= MaxPushes
     THEN /\ queue' = Insert(queue, [id |-> nextJob, pipeline |-> "p1",
                                     priority |-> pipelines["p1"].priority])
          /\ nextJob' = nextJob + 1
          /\ acks' = Append(acks, NoAcks)
     ELSE \E k \in 1..Len(acks) :
            /\ Len(acks[k].log) = 1
            /\ queue' = Insert(queue, [id |-> k, pipeline |-> "p1",
                                       priority |-> pipelines["p1"].priority])
            /\ acks' = [acks EXCEPT ![k] = NoAcks]
            /\ UNCHANGED nextJob
  /\ UNCHANGED <<registryVars, configVars, serveVars, dispatchVars, caller, calls, panicked>>

\* the steps of a poller that do not wait for anything
PollerRuns(p) ==
  \/ PollerSelect(p)
  \/ PollerContext(p)
  \/ PollerRLock(p)
  \/ PollerExecBegin(p)
  \/ PollerExecEnd(p)
  \/ PollerAck(p)

NextStop ==
  \/ \E n \in Names : ServeWalk(n)
  \/ ServePool
  \/ Feed
  \/ \E p \in Pollers : PollerRuns(p)
  \/ \E p \in Pollers : PollerExtract(p)
  \/ ResetLock
  \/ ResetDestroy
  \/ ResetNew
  \/ StopDrivers
  \/ StopSend
  \/ StopReturn

\* fair scheduling of the goroutines: a step that stays possible is taken
SpecStop ==
  /\ InitDispatch
  /\ [][NextStop]_vars
  /\ WF_vars(Feed)
  /\ WF_vars(StopSend)
  /\ WF_vars(ResetDestroy)
  /\ WF_vars(ResetNew)
  /\ \A p \in Pollers : WF_vars(PollerRuns(p)) /\ WF_vars(PollerExtract(p))

\* C18: once Stop has been called with the pollers running, and unless a dispatch
\* never returns (the process died in one), eventually all NumPollers signals
\* have been sent, none is left in the channel and every poller has left its loop.
C18_AllPollersExit ==
  (stop.pc # "idle" /\ \A p \in Pollers : poller[p].pc # "off")
  ~> \/ panicked
     \/ /\ \A p \in Pollers : poller[p].pc = "stopped"
        /\ stop.sent = NumPollers /\ stop.sender = "done" /\ stopCh = 0

\* C18 witness: every poller has left on its own signal after jobs were
\* dispatched, and no signal is left over
C18_Witness ==
  /\ \A p \in Pollers : poller[p].pc = "stopped"
  /\ \A p \in Pollers : \E k \in 1..Len(acks) : acks[k].by = p
  /\ stop.sent = NumPollers /\ stopCh = 0
  /\ ~panicked

C20_ServeNeverBlocks ==
  /\ serve.pc # "blocked"
  /\ Len(errCh) <= 1

====
